---- MODULE Spec2Model ----
(***************************************************************************)
(* Model of src/main.py: the "Recomecar" API (persons, shelters, donations *)
(* over an Oracle connection pool).                                        *)
(*                                                                         *)
(* Every route handler is an `async def` that only calls blocking code, so *)
(* inside one server process a request runs to completion before the next  *)
(* one starts.  Concurrency comes from several server processes (workers), *)
(* each with its own module-level `pool`, sharing one database.  A worker   *)
(* is therefore a sequential process; the steps of different workers        *)
(* interleave at the granularity of one execute_query call, which is one    *)
(* single-statement transaction against the database.                      *)
(*                                                                         *)
(* Only a subset of each table's columns is carried (enough to tell the     *)
(* fields of a record apart); the handlers treat all columns alike.         *)
(***************************************************************************)
EXTENDS Integers, FiniteSets, Sequences, TLC

(* ----------------------------- bounds ---------------------------------- *)
MaxId == 2          \* identities a table's sequence may hand out
MaxReq == 2         \* requests received in one behaviour
MaxFaults == 1      \* injected environment faults in one behaviour

Workers == {"w1", "w2"}

(* ------------------------- program constants --------------------------- *)
\* main.py:135, the connectivity-class vendor codes
ConnCodes == {24324, 1033, 1089, 3113, 3114, 12537, 12541}
\* vendor codes that are neither connectivity nor constraint: ORA-00942
\* (table or view does not exist), ORA-01722 (invalid number)
NonConnCodes == {942, 1722}
\* ORA-00001 unique constraint violated (main.py:251)
UniqueCode == 1

\* HTTP outcomes (200 is the default status of a route)
Ok == 200
Created == 201
NoContent == 204
BadRequest == 400
NotFound == 404
Conflict == 409
InternalError == 500
ServiceUnavailable == 503

Tables == {"PESSOAS", "ABRIGOS", "DOACOES"}

IdCol(t) == CASE t = "PESSOAS" -> "id_pessoa"
              [] t = "ABRIGOS" -> "id_abrigo"
              [] t = "DOACOES" -> "id_doacao"

TsCol(t) == CASE t = "PESSOAS" -> "data_cadastro"
              [] t = "ABRIGOS" -> "data_criacao"
              [] t = "DOACOES" -> "data_doacao"

\* PessoaCreate / AbrigoCreate / DoacaoCreate payloads (.dict() of the model)
CreatePayloads(t) ==
    CASE t = "PESSOAS" -> [nome : {"ana"}, cpf : {"111", "222"},
                           situacao : {"desabrigado"}]
      [] t = "ABRIGOS" -> [capacidade : {50}, ocupacao_atual : {0}]
      [] t = "DOACOES" -> [status : {"pendente"}, id_abrigo_destino : {1}]

Empty == [k \in {} |-> 0]

\* PessoaUpdate / AbrigoUpdate / DoacaoUpdate after .dict(exclude_unset=True):
\* a mapping over the fields the client supplied.  PessoaUpdate has no cpf;
\* DoacaoUpdate.id_abrigo_destino is declared Optional[str].
UpdatePayloads(t) ==
    CASE t = "PESSOAS" -> {Empty} \cup [nome : {"bia"}]
                                  \cup [situacao : {"abrigado"}]
                                  \cup [nome : {"bia"}, situacao : {"abrigado"}]
      [] t = "ABRIGOS" -> {Empty} \cup [capacidade : {60}]
                                  \cup [ocupacao_atual : {10}]
      [] t = "DOACOES" -> {Empty} \cup [status : {"entregue"}]
                                  \cup [id_abrigo_destino : {"2", "x"}]

(* ------------------------------ state ---------------------------------- *)
VARIABLES
    configured,   \* all([DB_USER, DB_PASSWORD, DB_DSN]), fixed at process start
    pool,         \* per worker: the global `pool`; 0 is None, n > 0 the n-th SessionPool
    npools,       \* per worker: SessionPool objects created so far
    checkedOut,   \* per worker: connections acquired and not (yet) released
    busy,         \* per worker: connections out of the SessionPool that `pool` names now
    staleRel,     \* per worker: release() calls that passed a connection to a pool that never handed it out
    db,           \* table -> set of rows
    seq,          \* table -> last identity generated
    clock,        \* database clock, source of the creation timestamps
    pc,           \* per worker: position in the handler
    req,          \* per worker: the request being served
    resp,         \* per worker: the response of the last request
    new_id,       \* per worker: the handler's local new_id
    stats,        \* per worker: the totals obter_estatisticas has read so far
    quiet,        \* per worker: no statement changed the database since the request arrived
    obs,          \* per worker: what the current request did (connections, statements, failure class)
    deleted,      \* <<table, id>> whose DELETE removed a row
    ok204,        \* <<table, id>> -> number of delete requests answered 204
    nreq,         \* requests received
    nfault        \* faults injected

vars == <<configured, pool, npools, checkedOut, busy, staleRel, db, seq, clock, pc,
          req, resp, new_id, stats, quiet, obs, deleted, ok204, nreq, nfault>>

(* ------------------------ environment inputs --------------------------- *)
\* What the database does to one execute_query call: nothing, an
\* oracledb.DatabaseError with a vendor code raised by the statement, some
\* other exception (oracledb.InterfaceError, TypeError, ...), or an
\* oracledb.Error raised by pool.acquire().
NoFault == [kind |-> "none", code |-> 0]

\* the vendor codes the environment raises here: two of the connectivity
\* class (session dropped, no listener) and one outside it
FaultCodes == {3113, 12541, 942}

Faults == {NoFault}
          \cup [kind : {"db"}, code : FaultCodes]
          \cup {[kind |-> "generic", code |-> 0], [kind |-> "acquire", code |-> 0]}

(* ----------------------- connection pool manager ----------------------- *)
\* init_oracle_pool on pool handle p with n SessionPools created so far;
\* `up` says whether oracledb.SessionPool(...) can reach the listener.
init_oracle_pool(p, n, up) ==
    IF ~configured
    THEN [pool |-> p, npools |-> n]
    ELSE IF up
         THEN [pool |-> n + 1, npools |-> n + 1]
         ELSE [pool |-> 0, npools |-> n]

\* get_db_connection: conn is the SessionPool that handed the connection
\* out (0: none), raised the status of the HTTPException it raises (0: none).
get_db_connection(p, n, fault, up) ==
    LET i == IF p = 0 THEN init_oracle_pool(p, n, up)
                      ELSE [pool |-> p, npools |-> n]
    IN  IF i.pool = 0
        THEN [pool |-> 0, npools |-> i.npools, conn |-> 0, raised |-> ServiceUnavailable]
        ELSE IF fault.kind = "acquire"
             THEN [pool |-> i.pool, npools |-> i.npools, conn |-> 0,
                   raised |-> ServiceUnavailable]
             ELSE [pool |-> i.pool, npools |-> i.npools, conn |-> i.pool, raised |-> 0]

\* Mutant of finally_release: the connection is never handed back.
finally_release_keep(p, conn) ==
    [held |-> 1, rel |-> 0, stale |-> 0, exc |-> "none"]

\* The finally block, `if conn: pool.release(conn)`, with the global pool
\* being p at that moment: with p None the call raises AttributeError and
\* the connection stays checked out; otherwise the connection is handed to
\* SessionPool p, which is stale when p is not the pool that handed it out.
finally_release(p, conn) ==
    IF p = 0
    THEN [held |-> 1, rel |-> 0, stale |-> 0, exc |-> "AttributeError"]
    ELSE [held |-> 0, rel |-> 1, stale |-> IF p # conn THEN 1 ELSE 0, exc |-> "none"]

(* ----------------------------- statements ------------------------------ *)
RowsById(rows, t, id) == {r \in rows : r[IdCol(t)] = id}

\* Oracle's implicit conversion of a bound string to the NUMBER column
\* ID_ABRIGO_DESTINO; a non-numeric string raises ORA-01722.
IsNumeric(s) == s \in {"0", "1", "2"}

ToNumber(s) == CASE s = "0" -> 0 [] s = "1" -> 1 [] s = "2" -> 2

NeedsConversion(t, c) == t = "DOACOES" /\ c = "id_abrigo_destino"

BadBind(t, params) ==
    \E c \in DOMAIN params : NeedsConversion(t, c) /\ ~IsNumeric(params[c])

Stored(t, c, v) == IF NeedsConversion(t, c) THEN ToNumber(v) ELSE v

\* The unique constraint on PESSOAS.CPF (enforced by the schema).
CpfTaken(rows, t, params) ==
    t = "PESSOAS" /\ \E r \in rows : r.cpf = params.cpf

\* The row the database stores for an INSERT: the supplied columns plus the
\* generated identity and the default creation timestamp.
NewRow(t, params, id, ts) ==
    [c \in DOMAIN params \cup {IdCol(t), TsCol(t)} |->
        IF c = IdCol(t) THEN id ELSE IF c = TsCol(t) THEN ts ELSE params[c]]

\* Mutant of SetClauses: the statement also refreshes the creation timestamp.
SetClausesTouchTs(t, r, params) ==
    [c \in DOMAIN r |-> IF c \in DOMAIN params THEN Stored(t, c, params[c])
                        ELSE IF c = TsCol(t) THEN clock + 1 ELSE r[c]]

\* Mutant of SetClauses: the statement writes every column of the model,
\* the absent ones as empty.
SetClausesAllColumns(t, r, params) ==
    [c \in DOMAIN r |->
        IF c \in DOMAIN params THEN Stored(t, c, params[c])
        ELSE IF c \in {IdCol(t), TsCol(t)} THEN r[c]
        ELSE IF c \in {"nome", "cpf", "situacao", "status"} THEN "" ELSE 0]

\* UPDATE <t> SET <k = :k for k in params> WHERE id = :id, applied to one row.
SetClauses(t, r, params) ==
    [c \in DOMAIN r |-> IF c \in DOMAIN params THEN Stored(t, c, params[c]) ELSE r[c]]

\* The identity the storage engine generates for the next INSERT into t.
GeneratedIdentity(t) == seq[t] + 1

\* INSERT INTO <t> (...) VALUES (...) RETURNING <id> INTO :out_id
InsertRow(rows, t, params) ==
    rows \cup {NewRow(t, params, GeneratedIdentity(t), clock + 1)}

\* Mutant of UpdateRows: an upsert, which stores a row when none matches.
UpdateRowsUpsert(rows, t, id, params) ==
    IF RowsById(rows, t, id) = {}
    THEN rows \cup {NewRow(t, params, id, clock + 1)}
    ELSE {IF r[IdCol(t)] = id THEN SetClauses(t, r, params) ELSE r : r \in rows}

\* UPDATE <t> SET <set_clauses> WHERE <id> = :id_param
UpdateRows(rows, t, id, params) ==
    {IF r[IdCol(t)] = id THEN SetClauses(t, r, params) ELSE r : r \in rows}

\* DELETE FROM <t> WHERE <id> = :id
DeleteRows(rows, t, id) == rows \ RowsById(rows, t, id)

\* The NULL that SUM returns over no rows (None in the fetched row).
SqlNull == -1

RECURSIVE SumVagas(_)
\* SUM(CAPACIDADE - OCUPACAO_ATUAL) over a non-empty set of ABRIGOS rows
SumVagas(rows) ==
    IF rows = {} THEN 0
    ELSE LET r == CHOOSE x \in rows : TRUE
         IN  (r.capacidade - r.ocupacao_atual) + SumVagas(rows \ {r})

\* the rows of a WHERE <column> = '<literal>' clause (all rows without one)
Where(rows, cond) == {r \in rows : \A c \in DOMAIN cond : r[c] = cond[c]}

\* cursor.execute(query, params) followed by the fetch: err is the vendor
\* code of the DatabaseError raised (0: none), rows the result set, out the
\* value of the out_ bind variable, db/seq/clock the database if the
\* transaction is committed, execs the number of cursor.execute calls.
cursor_execute(stmt) ==
    LET t == stmt.tbl
        same == [err |-> 0, rows |-> {}, out |-> 0, db |-> db, seq |-> seq, clock |-> clock,
                 execs |-> 1]
    IN  CASE stmt.sql = "SELECT_BY_ID" ->
               [same EXCEPT !.rows = RowsById(db[t], t, stmt.id)]
          [] stmt.sql = "SELECT_ALL" ->
               [same EXCEPT !.rows = db[t]]
          [] stmt.sql = "INSERT" ->
               IF CpfTaken(db[t], t, stmt.params)
               THEN [same EXCEPT !.err = UniqueCode]
               ELSE [same EXCEPT
                       !.out = GeneratedIdentity(t),
                       !.db = [db EXCEPT ![t] = InsertRow(@, t, stmt.params)],
                       !.seq = [seq EXCEPT ![t] = GeneratedIdentity(t)],
                       !.clock = clock + 1]
          [] stmt.sql = "UPDATE" ->
               IF BadBind(t, stmt.params)
               THEN [same EXCEPT !.err = 1722]
               ELSE [same EXCEPT
                       !.db = [db EXCEPT ![t] = UpdateRows(@, t, stmt.id, stmt.params)]]
          [] stmt.sql = "DELETE" ->
               [same EXCEPT
                  !.db = [db EXCEPT ![t] = DeleteRows(@, t, stmt.id)]]
          [] stmt.sql = "COUNT" ->
               [same EXCEPT
                  !.rows = {[total |-> Cardinality(Where(db[t], stmt.params))]}]
          [] stmt.sql = "SUM" ->
               [same EXCEPT
                  !.rows = {[total |-> IF db[t] = {} THEN SqlNull ELSE SumVagas(db[t])]}]

\* Mutant of Committed: conn.commit() is never called.
CommittedNever(stmt, x) == [x EXCEPT !.db = db, !.seq = seq, !.clock = clock]

\* `if commit: conn.commit()`: without the commit the transaction is rolled
\* back when the connection goes back to the pool.
Committed(stmt, x) ==
    IF stmt.commit THEN x ELSE [x EXCEPT !.db = db, !.seq = seq, !.clock = clock]

(* --------------------------- query executor ---------------------------- *)
\* Mutant of statement_failed: after a connectivity-class error the statement
\* is executed again, on a connection of the new pool.
statement_failed_retry(stmt, code) ==
    IF code \in ConnCodes
    THEN [Committed(stmt, cursor_execute(stmt)) EXCEPT !.execs = 2]
    ELSE [err |-> code, rows |-> {}, out |-> 0, db |-> db, seq |-> seq, clock |-> clock,
          execs |-> 1]

\* cursor.execute raises DatabaseError `code`: control leaves the try block
\* for the except clause, which runs no statement; nothing was committed.
statement_failed(stmt, code) ==
    [err |-> code, rows |-> {}, out |-> 0, db |-> db, seq |-> seq, clock |-> clock,
     execs |-> 1]

\* The `except oracledb.DatabaseError` handler, lines 131-145, for vendor
\* code `code` with the global pool p: a connectivity code drops the pool
\* (pool.close() cannot close a pool with a busy connection; either way
\* pool = None) and calls init_oracle_pool.  Every code is raised as 500.
database_error(code, p, n, up) ==
    IF code \in ConnCodes
    THEN LET i == init_oracle_pool(0, n, up)
         IN  [status |-> InternalError, cause |-> "connectivity",
              pool |-> i.pool, npools |-> i.npools]
    ELSE [status |-> InternalError, cause |-> "database", pool |-> p, npools |-> n]

\* The `except Exception` handler, lines 146-148; it also catches the
\* HTTPException(503) of get_db_connection.
generic_error(cause) == [status |-> InternalError, cause |-> cause]

\* One call of execute_query by worker w.  status 0 is a normal return.
execute_query(w, stmt, fault, up) ==
    LET g == get_db_connection(pool[w], npools[w], fault, up)
        base == [status |-> 0, cause |-> "none", code |-> 0, exc |-> "none",
                 rows |-> {}, out |-> 0,
                 pool |-> g.pool, npools |-> g.npools,
                 acq |-> 0, rel |-> 0, held |-> 0, stale |-> 0, stmts |-> 0,
                 db |-> db, seq |-> seq, clock |-> clock]
    IN  IF g.conn = 0
        THEN LET h == generic_error("unavailable")
             IN  [base EXCEPT !.status = h.status, !.cause = h.cause,
                              !.exc = "HTTPException"]
        ELSE
        LET x == IF fault.kind = "db"
                 THEN statement_failed(stmt, fault.code)
                 ELSE Committed(stmt, cursor_execute(stmt))
            got == [base EXCEPT !.acq = 1, !.stmts = x.execs]
        IN  IF fault.kind = "generic"
            THEN LET h == generic_error("generic")
                     f == finally_release(g.pool, g.conn)
                 IN  [got EXCEPT !.status = h.status, !.cause = h.cause,
                                 !.exc = "HTTPException",
                                 !.rel = f.rel, !.held = f.held, !.stale = f.stale]
            ELSE IF x.err # 0
            THEN LET h == database_error(x.err, g.pool, g.npools, up)
                     f == finally_release(h.pool, g.conn)
                 IN  [got EXCEPT !.status = h.status, !.cause = h.cause, !.code = x.err,
                                 !.exc = IF f.exc = "none" THEN "HTTPException" ELSE f.exc,
                                 !.pool = h.pool, !.npools = h.npools,
                                 !.rel = f.rel, !.held = f.held, !.stale = f.stale]
            ELSE LET f == finally_release(g.pool, g.conn)
                 IN  [got EXCEPT !.rows = x.rows, !.out = x.out,
                                 !.db = x.db, !.seq = x.seq, !.clock = x.clock,
                                 !.rel = f.rel, !.held = f.held, !.stale = f.stale]

(* ------------------------------ requests ------------------------------- *)
Ids == 1 .. MaxId

NoReq == [op |-> "none", tbl |-> "PESSOAS", id |-> 0, data |-> Empty]

NoResp == [status |-> 0, body |-> {}]

NoObs == [cause |-> "none", code |-> 0, exc |-> "none", env |-> "none",
          nacq |-> 0, nrel |-> 0, nstmt |-> 0, nwrite |-> 0]

Requests ==
    [op : {"create"}, tbl : {"PESSOAS"}, id : {0}, data : CreatePayloads("PESSOAS")]
    \cup [op : {"create"}, tbl : {"ABRIGOS"}, id : {0}, data : CreatePayloads("ABRIGOS")]
    \cup [op : {"create"}, tbl : {"DOACOES"}, id : {0}, data : CreatePayloads("DOACOES")]
    \cup [op : {"list"}, tbl : Tables, id : {0}, data : {Empty}]
    \cup [op : {"stats"}, tbl : {"ESTATISTICAS"}, id : {0}, data : {Empty}]
    \cup [op : {"get", "delete"}, tbl : Tables, id : Ids, data : {Empty}]
    \cup [op : {"update"}, tbl : {"PESSOAS"}, id : Ids, data : UpdatePayloads("PESSOAS")]
    \cup [op : {"update"}, tbl : {"ABRIGOS"}, id : Ids, data : UpdatePayloads("ABRIGOS")]
    \cup [op : {"update"}, tbl : {"DOACOES"}, id : Ids, data : UpdatePayloads("DOACOES")]

FirstStep(op) == CASE op = "create" -> "insert"
                   [] op = "list" -> "list"
                   [] op = "stats" -> "stats"
                   [] op = "get" -> "get"
                   [] op = "update" -> "check"
                   [] op = "delete" -> "check"

InFlightCreates(t) ==
    Cardinality({w \in Workers : req[w].op = "create" /\ req[w].tbl = t
                                 /\ pc[w] = "insert"})

\* The database outlives the server processes: it starts empty, or holding
\* one record of each kind left by earlier create requests.
SeedTime(t) == CASE t = "PESSOAS" -> 1 [] t = "ABRIGOS" -> 2 [] t = "DOACOES" -> 3

SeedRow(t) == NewRow(t, CHOOSE d \in CreatePayloads(t) :
                          t = "PESSOAS" => d.cpf = "111", 1, SeedTime(t))

Init ==
    /\ configured \in BOOLEAN
    /\ pool = [w \in Workers |-> 0]
    /\ npools = [w \in Workers |-> 0]
    /\ checkedOut = [w \in Workers |-> 0]
    /\ busy = [w \in Workers |-> 0]
    /\ staleRel = [w \in Workers |-> 0]
    /\ \E seeded \in BOOLEAN :
         /\ db = [t \in Tables |-> IF seeded THEN {SeedRow(t)} ELSE {}]
         /\ seq = [t \in Tables |-> IF seeded THEN 1 ELSE 0]
         /\ clock = IF seeded THEN Cardinality(Tables) ELSE 0
    /\ pc = [w \in Workers |-> "boot"]
    /\ req = [w \in Workers |-> NoReq]
    /\ resp = [w \in Workers |-> NoResp]
    /\ new_id = [w \in Workers |-> 0]
    /\ stats = [w \in Workers |-> <<>>]
    /\ quiet = [w \in Workers |-> TRUE]
    /\ obs = [w \in Workers |-> NoObs]
    /\ deleted = {}
    /\ ok204 = [k \in Tables \X Ids |-> 0]
    /\ nreq = 0
    /\ nfault = 0

\* oracledb.SessionPool(..., max=5): a pool hands out at most five
\* connections at a time, and pool.acquire() (default getmode: wait) blocks
\* while all of them are out.
PoolMax == 5

CanAcquire(w) == busy[w] < PoolMax

\* A fault is charged to the budget when the environment misbehaves.
Charge(fault, up) == IF fault # NoFault \/ ~up THEN 1 ELSE 0

\* Whether a call by worker w under `fault` reaches oracledb.SessionPool(...);
\* the listener's state is an input only then.
Consults(w, fault) ==
    configured /\ (pool[w] = 0 \/ (fault.kind = "db" /\ fault.code \in ConnCodes))

\* startup_event: init_oracle_pool() when the process starts.
startup_event(w) ==
    /\ pc[w] = "boot"
    /\ \E up \in BOOLEAN :
         LET i == init_oracle_pool(pool[w], npools[w], up)
         IN  /\ up \/ Consults(w, NoFault)
             /\ nfault + Charge(NoFault, up) <= MaxFaults
             /\ nfault' = nfault + Charge(NoFault, up)
             /\ pool' = [pool EXCEPT ![w] = i.pool]
             /\ npools' = [npools EXCEPT ![w] = i.npools]
    /\ pc' = [pc EXCEPT ![w] = "idle"]
    /\ UNCHANGED <<configured, checkedOut, busy, staleRel, db, seq, clock, req, resp,
                   new_id, stats, quiet, obs, deleted, ok204, nreq>>

\* A request arrives at an idle worker and is routed to its handler.
Receive(w) ==
    /\ pc[w] \in {"idle", "done"}
    /\ nreq < MaxReq
    /\ \E r \in Requests :
         /\ r.op = "create" => seq[r.tbl] + InFlightCreates(r.tbl) < MaxId
         /\ req' = [req EXCEPT ![w] = r]
         /\ pc' = [pc EXCEPT ![w] = FirstStep(r.op)]
    /\ resp' = [resp EXCEPT ![w] = NoResp]
    /\ new_id' = [new_id EXCEPT ![w] = 0]
    /\ stats' = [stats EXCEPT ![w] = <<>>]
    /\ quiet' = [quiet EXCEPT ![w] = TRUE]
    /\ obs' = [obs EXCEPT ![w] = NoObs]
    /\ nreq' = nreq + 1
    /\ UNCHANGED <<configured, pool, npools, checkedOut, busy, staleRel, db, seq,
                   clock, deleted, ok204, nfault>>

\* The effect of one execute_query call with outcome o on everything but the
\* handler's own position and response.
Effects(w, stmt, o, fault, up) ==
    /\ up \/ Consults(w, fault)
    /\ o.acq = 1 => CanAcquire(w)
    /\ nfault + Charge(fault, up) <= MaxFaults
    /\ nfault' = nfault + Charge(fault, up)
    /\ pool' = [pool EXCEPT ![w] = o.pool]
    /\ npools' = [npools EXCEPT ![w] = o.npools]
    /\ checkedOut' = [checkedOut EXCEPT ![w] = @ + o.held]
    /\ busy' = [busy EXCEPT ![w] = IF o.pool = pool[w] /\ o.pool # 0
                                   THEN @ + o.held ELSE 0]
    /\ staleRel' = [staleRel EXCEPT ![w] = @ + o.stale]
    /\ db' = o.db
    /\ quiet' = [v \in Workers |->
                   IF req[v].op = "stats" THEN quiet[v] /\ o.db = db ELSE quiet[v]]
    /\ seq' = o.seq
    /\ clock' = o.clock
    /\ obs' = [obs EXCEPT ![w] =
                 [cause |-> o.cause, code |-> o.code, exc |-> o.exc,
                  env |-> IF Charge(fault, up) = 1 THEN "fault" ELSE "none",
                  nacq |-> @.nacq + o.acq, nrel |-> @.nrel + o.rel,
                  nstmt |-> @.nstmt + o.stmts,
                  nwrite |-> @.nwrite + (IF o.status = 0 /\ stmt.commit THEN 1 ELSE 0)]]
    /\ UNCHANGED <<configured, nreq>>

Select(t, id) ==
    [sql |-> "SELECT_BY_ID", tbl |-> t, id |-> id, params |-> Empty, commit |-> FALSE]

\* Mutant of obter_registro: the empty result is returned, not raised as 404.
obter_registro_no404(o) == o.status

\* obter_pessoa / obter_abrigo / obter_doacao: the single-row read and the
\* 404 when it finds nothing.  status 0 is a normal return of the row.
obter_registro(o) ==
    IF o.status # 0 THEN o.status
    ELSE IF o.rows = {} THEN NotFound ELSE 0

\* The handler returns or raises: the response goes out.
Respond(w, status, body) ==
    /\ pc' = [pc EXCEPT ![w] = "done"]
    /\ resp' = [resp EXCEPT ![w] = [status |-> status, body |-> body]]

(* ------------------------------ handlers ------------------------------- *)
\* Mutant of Insert: the INSERT is executed without commit=True.
InsertUncommitted(t, params) ==
    [sql |-> "INSERT", tbl |-> t, id |-> 0, params |-> params, commit |-> FALSE]

Insert(t, params) ==
    [sql |-> "INSERT", tbl |-> t, id |-> 0, params |-> params, commit |-> TRUE]

Update(t, id, params) ==
    [sql |-> "UPDATE", tbl |-> t, id |-> id, params |-> params, commit |-> TRUE]

Delete(t, id) ==
    [sql |-> "DELETE", tbl |-> t, id |-> id, params |-> Empty, commit |-> TRUE]

SelectAll(t) ==
    [sql |-> "SELECT_ALL", tbl |-> t, id |-> 0, params |-> Empty, commit |-> FALSE]

\* `"ORA-00001" in str(e.detail)`: the detail of the HTTPException raised for
\* a DatabaseError carries the vendor message, which begins with its code.
HasOra00001(o) == o.cause \in {"database", "connectivity"} /\ o.code = UniqueCode

\* Mutant of create_error: the HTTPException is re-raised unchanged.
create_error_reraise(t, o) == o.status

\* The `except HTTPException` clause of cadastrar_pessoa (409 for a unique
\* violation); cadastrar_abrigo and cadastrar_doacao re-raise unchanged.
create_error(t, o) ==
    IF t = "PESSOAS" /\ o.exc = "HTTPException" /\ HasOra00001(o)
    THEN Conflict
    ELSE o.status

\* Mutant of no_update_data: the empty payload is not rejected.
no_update_data_never(data) == FALSE

\* `if not update_data`
no_update_data(data) == DOMAIN data = {}

\* cadastrar_*: the INSERT ... RETURNING with commit=True.
cadastrar(w) ==
    /\ pc[w] = "insert"
    /\ \E fault \in Faults, up \in BOOLEAN :
         LET t == req[w].tbl
             stmt == Insert(t, req[w].data)
             o == execute_query(w, stmt, fault, up)
         IN  /\ Effects(w, stmt, o, fault, up)
             /\ IF o.status = 0
                THEN /\ new_id' = [new_id EXCEPT ![w] = o.out]
                     /\ pc' = [pc EXCEPT ![w] = "reread"]
                     /\ UNCHANGED resp
                ELSE /\ Respond(w, create_error(t, o), {})
                     /\ UNCHANGED new_id
    /\ UNCHANGED <<req, stats, deleted, ok204>>

\* cadastrar_*: `return await obter_*(new_id)`.
cadastrar_obter(w) ==
    /\ pc[w] = "reread"
    /\ req[w].op = "create"
    /\ \E fault \in Faults, up \in BOOLEAN :
         LET t == req[w].tbl
             stmt == Select(t, new_id[w])
             o == execute_query(w, stmt, fault, up)
             st == obter_registro(o)
         IN  /\ Effects(w, stmt, o, fault, up)
             /\ IF st = 0
                THEN Respond(w, Created, o.rows)
                ELSE Respond(w, create_error(t, [o EXCEPT !.status = st]), {})
    /\ UNCHANGED <<req, new_id, stats, deleted, ok204>>

\* listar_*
listar(w) ==
    /\ pc[w] = "list"
    /\ \E fault \in Faults, up \in BOOLEAN :
         LET stmt == SelectAll(req[w].tbl)
             o == execute_query(w, stmt, fault, up)
         IN  /\ Effects(w, stmt, o, fault, up)
             /\ IF o.status = 0
                THEN Respond(w, Ok, o.rows)
                ELSE Respond(w, o.status, {})
    /\ UNCHANGED <<req, new_id, stats, deleted, ok204>>

\* obter_* as a route
obter(w) ==
    /\ pc[w] = "get"
    /\ \E fault \in Faults, up \in BOOLEAN :
         LET stmt == Select(req[w].tbl, req[w].id)
             o == execute_query(w, stmt, fault, up)
             st == obter_registro(o)
         IN  /\ Effects(w, stmt, o, fault, up)
             /\ IF st = 0
                THEN Respond(w, Ok, o.rows)
                ELSE Respond(w, st, {})
    /\ UNCHANGED <<req, new_id, stats, deleted, ok204>>

\* atualizar_*: the existence check, then the empty-payload check.
atualizar(w) ==
    /\ pc[w] = "check"
    /\ req[w].op = "update"
    /\ \E fault \in Faults, up \in BOOLEAN :
         LET stmt == Select(req[w].tbl, req[w].id)
             o == execute_query(w, stmt, fault, up)
             st == obter_registro(o)
         IN  /\ Effects(w, stmt, o, fault, up)
             /\ IF st # 0
                THEN Respond(w, st, {})
                ELSE IF no_update_data(req[w].data)
                THEN Respond(w, BadRequest, {})
                ELSE /\ pc' = [pc EXCEPT ![w] = "update"]
                     /\ UNCHANGED resp
    /\ UNCHANGED <<req, new_id, stats, deleted, ok204>>

\* atualizar_*: the UPDATE built from update_data, with commit=True.
atualizar_update(w) ==
    /\ pc[w] = "update"
    /\ \E fault \in Faults, up \in BOOLEAN :
         LET stmt == Update(req[w].tbl, req[w].id, req[w].data)
             o == execute_query(w, stmt, fault, up)
         IN  /\ Effects(w, stmt, o, fault, up)
             /\ IF o.status = 0
                THEN /\ pc' = [pc EXCEPT ![w] = "reread"]
                     /\ UNCHANGED resp
                ELSE Respond(w, o.status, {})
    /\ UNCHANGED <<req, new_id, stats, deleted, ok204>>

\* atualizar_*: `return await obter_*(id)`.
atualizar_obter(w) ==
    /\ pc[w] = "reread"
    /\ req[w].op = "update"
    /\ \E fault \in Faults, up \in BOOLEAN :
         LET stmt == Select(req[w].tbl, req[w].id)
             o == execute_query(w, stmt, fault, up)
             st == obter_registro(o)
         IN  /\ Effects(w, stmt, o, fault, up)
             /\ IF st = 0
                THEN Respond(w, Ok, o.rows)
                ELSE Respond(w, st, {})
    /\ UNCHANGED <<req, new_id, stats, deleted, ok204>>

\* deletar_*: the existence check.
deletar(w) ==
    /\ pc[w] = "check"
    /\ req[w].op = "delete"
    /\ \E fault \in Faults, up \in BOOLEAN :
         LET stmt == Select(req[w].tbl, req[w].id)
             o == execute_query(w, stmt, fault, up)
             st == obter_registro(o)
         IN  /\ Effects(w, stmt, o, fault, up)
             /\ IF st # 0
                THEN Respond(w, st, {})
                ELSE /\ pc' = [pc EXCEPT ![w] = "delete"]
                     /\ UNCHANGED resp
    /\ UNCHANGED <<req, new_id, stats, deleted, ok204>>

\* deletar_*: the DELETE with commit=True, then 204.
deletar_delete(w) ==
    /\ pc[w] = "delete"
    /\ \E fault \in Faults, up \in BOOLEAN :
         LET t == req[w].tbl
             stmt == Delete(t, req[w].id)
             o == execute_query(w, stmt, fault, up)
         IN  /\ Effects(w, stmt, o, fault, up)
             /\ IF o.status = 0
                THEN /\ Respond(w, NoContent, {})
                     /\ ok204' = [ok204 EXCEPT ![<<t, req[w].id>>] = @ + 1]
                     /\ deleted' = IF o.db # db THEN deleted \cup {<<t, req[w].id>>}
                                   ELSE deleted
                ELSE /\ Respond(w, o.status, {})
                     /\ UNCHANGED <<deleted, ok204>>
    /\ UNCHANGED <<req, new_id, stats>>

\* The six aggregate queries of obter_estatisticas, in the order it runs them.
Count(t, cond) ==
    [sql |-> "COUNT", tbl |-> t, id |-> 0, params |-> cond, commit |-> FALSE]

StatQueries ==
    << Count("PESSOAS", Empty),
       Count("PESSOAS", [situacao |-> "desabrigado"]),
       Count("ABRIGOS", Empty),
       [sql |-> "SUM", tbl |-> "ABRIGOS", id |-> 0, params |-> Empty, commit |-> FALSE],
       Count("DOACOES", Empty),
       Count("DOACOES", [status |-> "pendente"]) >>

\* the keys of the dictionary it returns, in the same order
StatFields ==
    << "total_pessoas", "pessoas_desabrigadas", "total_abrigos",
       "vagas_disponiveis", "total_doacoes", "doacoes_pendentes" >>

\* Mutant of total_of: the NULL sum is passed on as it is.
total_of_raw(k, row) == row.total

\* `execute_query(...)['total']`, and for the fourth query
\* `r['total'] if r and r['total'] is not None else 0`
total_of(k, row) ==
    IF StatFields[k] = "vagas_disponiveis" /\ row.total = SqlNull THEN 0 ELSE row.total

\* the dictionary built from the totals s
Snapshot(s) ==
    [f \in {StatFields[i] : i \in 1 .. Len(s)} |->
        s[CHOOSE i \in 1 .. Len(s) : StatFields[i] = f]]

\* Mutant of estatisticas_error: the totals read so far are returned.
estatisticas_error_partial(s) == [status |-> Ok, body |-> {Snapshot(s)}]

\* `except Exception as e: raise HTTPException(status_code=500, ...)`
estatisticas_error(s) == [status |-> InternalError, body |-> {}]

\* obter_estatisticas: the next of its six reads; the sixth is followed by
\* the return of the dictionary.
obter_estatisticas(w) ==
    /\ pc[w] = "stats"
    /\ \E fault \in Faults, up \in BOOLEAN :
         LET k == Len(stats[w]) + 1
             stmt == StatQueries[k]
             o == execute_query(w, stmt, fault, up)
         IN  /\ Effects(w, stmt, o, fault, up)
             /\ IF o.status # 0
                THEN LET e == estatisticas_error(stats[w])
                     IN  /\ Respond(w, e.status, e.body)
                         /\ stats' = [stats EXCEPT ![w] = <<>>]
                ELSE LET row == CHOOSE r \in o.rows : TRUE
                         s == Append(stats[w], total_of(k, row))
                     IN  /\ stats' = [stats EXCEPT ![w] = s]
                         /\ IF k = Len(StatQueries)
                            THEN Respond(w, Ok, {Snapshot(s)})
                            ELSE UNCHANGED <<pc, resp>>
    /\ UNCHANGED <<req, new_id, deleted, ok204>>

Next ==
    \E w \in Workers :
        \/ startup_event(w)
        \/ Receive(w)
        \/ cadastrar(w)
        \/ cadastrar_obter(w)
        \/ listar(w)
        \/ obter(w)
        \/ atualizar(w)
        \/ atualizar_update(w)
        \/ atualizar_obter(w)
        \/ deletar(w)
        \/ deletar_delete(w)
        \/ obter_estatisticas(w)

Spec == Init /\ [][Next]_vars

TypeOK ==
    /\ configured \in BOOLEAN
    /\ \A w \in Workers :
         /\ pool[w] \in 0 .. npools[w]
         /\ checkedOut[w] \in Nat
         /\ busy[w] \in 0 .. PoolMax
         /\ pc[w] \in {"boot", "idle", "insert", "reread", "list", "get", "check",
                       "update", "delete", "stats", "done"}
         /\ Len(stats[w]) <= Len(StatFields)
         /\ resp[w].status \in {0, Ok, Created, NoContent, BadRequest, NotFound,
                                Conflict, InternalError, ServiceUnavailable}
    /\ \A t \in Tables : seq[t] \in 0 .. MaxId
    /\ nreq \in 0 .. MaxReq
    /\ nfault \in 0 .. MaxFaults

(* ------------------------------- claims -------------------------------- *)
\* C1: every execute_query call releases the connection it acquired on every
\* exit path, so no connection remains checked out and a finished request
\* has released as many connections as it acquired.
C1_ReleasedOnEveryPath ==
    \A w \in Workers :
        /\ checkedOut[w] = 0
        /\ pc[w] = "done" => obs[w].nrel = obs[w].nacq

\* C2: after a connectivity-class error the pool is replaced and no
\* connection acquired from the discarded pool is released into (or handed
\* out by) the new pool.
C2_NoStaleConnectionReused ==
    \A w \in Workers :
        /\ staleRel[w] = 0
        /\ (pc[w] = "done" /\ obs[w].cause = "connectivity")
              => pool[w] \in {0, npools[w]}

\* C3: a request ended by a connectivity-class database error reports 503,
\* one ended by any other non-constraint database error reports 500.
C3_ConnectivityReports503 ==
    \A w \in Workers :
        pc[w] = "done" =>
            /\ obs[w].cause = "connectivity" => resp[w].status = ServiceUnavailable
            /\ (obs[w].cause = "database" /\ obs[w].code \in NonConnCodes)
                  => resp[w].status = InternalError

\* C4: with incomplete configuration the pool stays not ready and every
\* request that needs a connection is answered 503.
C4_UnconfiguredReports503 ==
    \A w \in Workers :
        ~configured =>
            /\ pool[w] = 0
            /\ pc[w] = "done" => resp[w].status = ServiceUnavailable

\* The statement of the call just made by w reached a healthy database
\* through a ready pool.
Healthy(w) == obs'[w].env = "none" /\ obs'[w].nacq = obs[w].nacq + 1

UniqueCpf == \A r1, r2 \in db["PESSOAS"] : r1.cpf = r2.cpf => r1 = r2

C5_DuplicateCreate(w) ==
    (/\ pc[w] = "insert" /\ pc'[w] # "insert"
     /\ req[w].tbl = "PESSOAS"
     /\ \E r \in db["PESSOAS"] : r.cpf = req[w].data.cpf)
    => /\ pc'[w] = "done"
       /\ db' = db
       /\ resp'[w].status \in {Conflict, InternalError}
       /\ Healthy(w) => resp'[w].status = Conflict

\* C5: no two stored persons ever share a cpf; a create whose cpf is already
\* stored (also when two such creates race) is answered 409, adds no record
\* and leaves the stored records as they were.
C5_CpfConflict ==
    []UniqueCpf /\ [][\A w \in Workers : C5_DuplicateCreate(w)]_vars

C5_Witness ==
    \E w1, w2 \in Workers :
        /\ w1 # w2
        /\ pc[w1] = "done" /\ pc[w2] = "done"
        /\ req[w1].op = "create" /\ req[w2].op = "create"
        /\ req[w1].tbl = "PESSOAS" /\ req[w2].tbl = "PESSOAS"
        /\ req[w1].data.cpf = req[w2].data.cpf
        /\ resp[w1].status = Created /\ resp[w2].status = Conflict
        /\ resp[w1].body \subseteq db["PESSOAS"]

C6_UpdateStatement(w) ==
    (pc[w] = "update" /\ pc'[w] = "reread")
    => LET t == req[w].tbl
           id == req[w].id
           data == req[w].data
       IN  /\ \A u \in Tables \ {t} : db'[u] = db[u]
           /\ \A r \in db[t] : r[IdCol(t)] # id => r \in db'[t]
           /\ Cardinality(db'[t]) = Cardinality(db[t])
           /\ \A r \in RowsById(db[t], t, id) :
                \E r2 \in db'[t] :
                   /\ DOMAIN r2 = DOMAIN r
                   /\ r2[IdCol(t)] = id
                   /\ r2[TsCol(t)] = r[TsCol(t)]
                   /\ \A c \in DOMAIN r :
                        /\ c \in DOMAIN data => r2[c] = Stored(t, c, data[c])
                        /\ c \notin DOMAIN data => r2[c] = r[c]

\* C6: a successful UPDATE of an entity sets exactly the fields present in
\* the payload to the supplied values; every other field of the entity (its
\* identity and creation timestamp among them) and every other entity stay
\* as before, for persons, shelters and donations.
C6_PartialUpdateFrame == [][\A w \in Workers : C6_UpdateStatement(w)]_vars

C6_Witness ==
    \E w \in Workers :
        /\ pc[w] = "reread" /\ req[w].op = "update" /\ req[w].tbl = "PESSOAS"
        /\ DOMAIN req[w].data = {"nome"}
        /\ \E r \in db["PESSOAS"] :
             /\ r.id_pessoa = req[w].id
             /\ r.nome = req[w].data.nome
             /\ r.situacao = "desabrigado"
             /\ r.data_cadastro = SeedTime("PESSOAS")

\* C7 as claimed: an update with zero fields present is answered 400 before
\* any database interaction (no connection acquired, no statement executed).
C7_EmptyRejectedBeforeDb ==
    \A w \in Workers :
        (pc[w] = "done" /\ req[w].op = "update" /\ DOMAIN req[w].data = {})
        => /\ resp[w].status = BadRequest
           /\ obs[w].nacq = 0
           /\ obs[w].nstmt = 0

C7_EmptyUpdateStep(w) ==
    (/\ pc[w] = "check" /\ pc'[w] # "check"
     /\ req[w].op = "update" /\ DOMAIN req[w].data = {})
    => /\ pc'[w] = "done"
       /\ db' = db
       /\ obs'[w].nwrite = 0
       /\ obs'[w].nstmt <= 1
       /\ resp'[w].status =
            IF obs'[w].cause # "none" THEN InternalError
            ELSE IF RowsById(db[req[w].tbl], req[w].tbl, req[w].id) = {}
                 THEN NotFound ELSE BadRequest

\* C7 amended: an update with zero fields present runs only the
\* existence-check read and never a write: it is answered 400 when the read
\* finds the identity, 404 when it finds none, 500 when the read fails, and
\* storage is unchanged.
C7_EmptyRejectedBeforeWrite == [][\A w \in Workers : C7_EmptyUpdateStep(w)]_vars

C7_Witness ==
    \E w \in Workers :
        /\ pc[w] = "done" /\ req[w].op = "update" /\ DOMAIN req[w].data = {}
        /\ resp[w].status = BadRequest
        /\ obs[w].nacq = 1 /\ obs[w].nstmt = 1 /\ obs[w].nwrite = 0

C8_MissingIdentity(w) ==
    (/\ pc[w] \in {"get", "check"} /\ pc'[w] # pc[w]
     /\ RowsById(db[req[w].tbl], req[w].tbl, req[w].id) = {})
    => /\ pc'[w] = "done"
       /\ db' = db
       /\ resp'[w].status \in {NotFound, InternalError}
       /\ Healthy(w) => resp'[w].status = NotFound

\* C8: get, update and delete of an identity that is not stored are each
\* answered 404 and leave storage unchanged; with a ready pool and a healthy
\* database no other outcome is possible.
C8_NotFound == [][\A w \in Workers : C8_MissingIdentity(w)]_vars

C8_Witness ==
    \E w1, w2 \in Workers :
        /\ pc[w1] = "done" /\ pc[w2] = "done"
        /\ req[w1].op = "update" /\ DOMAIN req[w1].data # {}
        /\ req[w2].op = "delete"
        /\ resp[w1].status = NotFound /\ resp[w2].status = NotFound
        /\ obs[w1].nstmt = 1 /\ obs[w2].nstmt = 1

C9_Step ==
    /\ \A k \in deleted : RowsById(db'[k[1]], k[1], k[2]) = {}
    /\ \A w \in Workers :
         /\ resp'[w] # resp[w] =>
              \A k \in deleted :
                 k[1] = req[w].tbl => RowsById(resp'[w].body, k[1], k[2]) = {}
         /\ (pc[w] = "get" /\ pc'[w] = "done" /\ <<req[w].tbl, req[w].id>> \in deleted)
              => /\ resp'[w].status \in {NotFound, InternalError}
                 /\ Healthy(w) => resp'[w].status = NotFound

\* C9: deleted is terminal: once a DELETE has removed an identity it is never
\* stored again, whatever runs afterwards (an UPDATE that passed its
\* existence check before the delete included); every later get of it is
\* answered 404 and no later response lists it.
C9_DeletedIsTerminal == [][C9_Step]_vars

C9_Witness ==
    \E w \in Workers :
        /\ pc[w] = "done" /\ req[w].op = "update"
        /\ <<req[w].tbl, req[w].id>> \in deleted
        /\ obs[w].nwrite = 1
        /\ resp[w].status = NotFound

\* C10: for each identity at most one delete request is answered 204.
C10_AtMostOneDelete204 == \A k \in DOMAIN ok204 : ok204[k] <= 1

IdsOf(rows, t) == {r[IdCol(t)] : r \in rows}

C11_Create(w) ==
    (/\ pc[w] = "insert" /\ pc'[w] # "insert"
     /\ Healthy(w)
     /\ ~(req[w].tbl = "PESSOAS"
          /\ \E r \in db["PESSOAS"] : r.cpf = req[w].data.cpf))
    => LET t == req[w].tbl
           id == new_id'[w]
       IN  /\ pc'[w] = "reread"
           /\ id \notin IdsOf(db[t], t)
           /\ <<t, id>> \notin deleted
           /\ \A v \in Workers \ {w} :
                (req[v].op = "create" /\ req[v].tbl = t) => new_id[v] # id
           /\ \E r \in db'[t] :
                /\ r[IdCol(t)] = id
                /\ db'[t] = db[t] \cup {r}
                /\ \A c \in DOMAIN req[w].data : r[c] = req[w].data[c]

C11_NeverStalls ==
    \A w \in Workers :
        /\ busy[w] = 0 /\ CanAcquire(w)
        /\ pc[w] = "insert" => ENABLED cadastrar(w)
        /\ (pc[w] = "reread" /\ req[w].op = "create") => ENABLED cadastrar_obter(w)

AsCreated(r, t, data, id) ==
    /\ DOMAIN r = DOMAIN data \cup {IdCol(t), TsCol(t)}
    /\ r[IdCol(t)] = id
    /\ r[TsCol(t)] \in Nat \ {0}
    /\ \A c \in DOMAIN data : r[c] = data[c]

C12_Step(w) ==
    LET t == req[w].tbl
    IN  /\ (pc[w] = "insert" /\ pc'[w] = "reread")
              => \E r \in db'[t] :
                    /\ AsCreated(r, t, req[w].data, new_id'[w])
                    /\ r[TsCol(t)] = clock'
                    /\ RowsById(db'[t], t, new_id'[w]) = {r}
        /\ (/\ pc[w] = "reread" /\ pc'[w] = "done" /\ req[w].op = "create"
             /\ Healthy(w)
             /\ \E r \in db[t] : AsCreated(r, t, req[w].data, new_id[w]))
              => /\ resp'[w].status = Created
                 /\ resp'[w].body = RowsById(db[t], t, new_id[w])
                 /\ \A r \in resp'[w].body : AsCreated(r, t, req[w].data, new_id[w])
        /\ (/\ pc[w] = "get" /\ pc'[w] = "done"
             /\ Healthy(w)
             /\ RowsById(db[t], t, req[w].id) # {})
              => /\ resp'[w].status = Ok
                 /\ resp'[w].body = RowsById(db[t], t, req[w].id)

\* C12: for persons, shelters and donations, a successful create stores one
\* record made of the payload's fields, the generated identity and the
\* creation timestamp, under the identity the create goes on to return; as
\* long as no update or delete has touched it, the create's own re-read and
\* any get of that identity on a healthy database return exactly that record.
C12_CreateThenGet == [][\A w \in Workers : C12_Step(w)]_vars

C12_Witness ==
    \E w1, w2 \in Workers :
        /\ pc[w1] = "done" /\ pc[w2] = "done"
        /\ req[w1].op = "create" /\ resp[w1].status = Created
        /\ req[w2].op = "get" /\ resp[w2].status = Ok
        /\ req[w2].tbl = req[w1].tbl /\ req[w2].id = new_id[w1]
        /\ resp[w2].body = resp[w1].body
        /\ \A r \in resp[w2].body :
             AsCreated(r, req[w1].tbl, req[w1].data, new_id[w1])
        /\ resp[w2].body # {}

\* The six totals of the stored data, as the statistics operation is to
\* report them.
Totals ==
    [total_pessoas |-> Cardinality(db["PESSOAS"]),
     pessoas_desabrigadas |->
         Cardinality({r \in db["PESSOAS"] : r.situacao = "desabrigado"}),
     total_abrigos |-> Cardinality(db["ABRIGOS"]),
     vagas_disponiveis |-> SumVagas(db["ABRIGOS"]),
     total_doacoes |-> Cardinality(db["DOACOES"]),
     doacoes_pendentes |->
         Cardinality({r \in db["DOACOES"] : r.status = "pendente"})]

Zeros == [f \in {StatFields[i] : i \in 1 .. Len(StatFields)} |-> 0]

StatsAnswered(w) ==
    pc[w] = "done" /\ req[w].op = "stats" /\ resp[w].status = Ok

\* C13: a statistics request that no mutation overlapped returns the six
\* totals of the stored data: persons, persons 'desabrigado', shelters, the
\* sum of capacity minus occupancy (0 without shelters), donations,
\* donations 'pendente'; all six are 0 on the empty dataset.
C13_StatisticsMatchData ==
    \A w \in Workers :
        (StatsAnswered(w) /\ quiet[w])
        => /\ resp[w].body = {Totals}
           /\ (\A t \in Tables : db[t] = {}) => resp[w].body = {Zeros}

C13_Witness ==
    \E w \in Workers :
        /\ StatsAnswered(w) /\ quiet[w]
        /\ \E a \in db["ABRIGOS"] : a.capacidade = 50 /\ a.ocupacao_atual = 0
        /\ \E b \in resp[w].body :
             /\ b.total_abrigos = 1
             /\ b.total_doacoes = 1
             /\ b.doacoes_pendentes = 1
             /\ b.vagas_disponiveis = 50

C14_Complete ==
    \A w \in Workers :
        (pc[w] = "done" /\ req[w].op = "stats")
        => IF resp[w].status = Ok
           THEN /\ obs[w].cause = "none"
                /\ obs[w].nstmt = Len(StatQueries)
                /\ \E b \in resp[w].body :
                     /\ resp[w].body = {b}
                     /\ DOMAIN b = DOMAIN Zeros
                     /\ \A f \in DOMAIN b : b[f] \in Nat
           ELSE resp[w].status = InternalError /\ resp[w].body = {}

C14_FailedRead(w) ==
    (pc[w] = "stats" /\ obs'[w].cause # "none")
    => /\ pc'[w] = "done"
       /\ resp'[w] = [status |-> InternalError, body |-> {}]

\* C14: when any of the six reads of the statistics operation fails (a
\* database error of either class, any other exception, no connection, pool
\* not ready) the request ends at once with 500 and an empty body, whatever
\* was read before; a statistics response with status 200 carries all six
\* totals, each read by a call that succeeded.
C14_AllOrNothing ==
    []C14_Complete /\ [][\A w \in Workers : C14_FailedRead(w)]_vars

C14_Witness ==
    \E w \in Workers :
        /\ pc[w] = "done" /\ req[w].op = "stats"
        /\ obs[w].nstmt = 3 /\ obs[w].cause = "connectivity"
        /\ resp[w] = [status |-> InternalError, body |-> {}]

InHandler(w) == pc[w] \notin {"boot", "idle", "done"}

C15_Call(w) ==
    InHandler(w)
    => /\ obs'[w].nstmt <= obs[w].nstmt + 1
       /\ obs'[w].env = "fault" => obs'[w].cause # "none"
       /\ obs'[w].cause # "none"
             => /\ db' = db /\ seq' = seq /\ clock' = clock
                /\ obs'[w].nwrite = obs[w].nwrite
                /\ pc'[w] = "done"
                /\ resp'[w].status \in {Conflict, InternalError}
       /\ obs'[w].cause = "connectivity"
             => \/ pool'[w] = 0
                \/ pool'[w] = npools'[w] /\ npools'[w] > npools[w]

\* C15: one execute_query call executes its statement at most once; a call
\* that fails (by the database or by the environment) leaves the stored
\* data as it was and ends its request with an error, so a failed mutation
\* is applied zero times; after a connectivity-class error the only
\* recovery is the replacement of the pool (a new SessionPool or none).
C15_NoRetry == [][\A w \in Workers : C15_Call(w)]_vars

C15_Witness ==
    \E w \in Workers :
        /\ pc[w] = "done" /\ req[w].op = "update" /\ req[w].tbl = "PESSOAS"
        /\ obs[w].cause = "connectivity"
        /\ obs[w].nstmt = 2 /\ obs[w].nwrite = 0
        /\ resp[w].status = InternalError
        /\ pool[w] = 2
        /\ db["PESSOAS"] = {SeedRow("PESSOAS")}

\* The stored record <t, id> holds, in every field of data, data's value.
Holds(rows, t, id, data) ==
    \E r \in RowsById(rows, t, id) :
        \A c \in DOMAIN data : r[c] = Stored(t, c, data[c])

C16_SecondUpdate(w) ==
    (pc[w] = "update" /\ pc'[w] = "reread")
    => LET t == req[w].tbl
           id == req[w].id
       IN  /\ RowsById(db[t], t, id) # {} => Holds(db'[t], t, id, req[w].data)
           /\ \A v \in Workers \ {w} :
                (/\ req[v].op = "update" /\ req[v].tbl = t /\ req[v].id = id
                 /\ obs[v].nwrite = 1
                 /\ DOMAIN req[v].data \cap DOMAIN req[w].data = {}
                 /\ Holds(db[t], t, id, req[v].data))
                => Holds(db'[t], t, id, req[v].data)

\* C16: when two updates of one entity name disjoint sets of fields, the
\* UPDATE statement of either, executed after the other's has committed (at
\* whatever point of the other's request), stores its own values and leaves
\* the other's in place: under every interleaving the record ends up with
\* each field at the value of the update that named it.
C16_NoLostUpdate == [][\A w \in Workers : C16_SecondUpdate(w)]_vars

C16_Witness ==
    \E w1, w2 \in Workers :
        /\ pc[w1] = "reread" /\ pc[w2] = "reread"
        /\ req[w1].op = "update" /\ req[w2].op = "update"
        /\ req[w1].tbl = "PESSOAS" /\ req[w2].tbl = "PESSOAS"
        /\ req[w1].id = req[w2].id
        /\ DOMAIN req[w1].data = {"nome"} /\ DOMAIN req[w2].data = {"situacao"}
        /\ obs[w1].nwrite = 1 /\ obs[w2].nwrite = 1
        /\ \E r \in db["PESSOAS"] :
             /\ r.id_pessoa = req[w1].id
             /\ r.nome = req[w1].data.nome
             /\ r.situacao = req[w2].data.situacao

InFlight(w) == IF InHandler(w) THEN 1 ELSE 0

\* C17: the connections a process has checked out never exceed the requests
\* it has in flight nor the pool maximum of five (a request holds at most
\* one connection, and only for the duration of one execute_query call).
C17_ConnectionsBounded ==
    \A w \in Workers :
        /\ checkedOut[w] <= InFlight(w)
        /\ checkedOut[w] <= PoolMax

C18_Step(w) ==
    LET t == req[w].tbl
    IN  /\ (pc[w] = "insert" /\ pc'[w] = "reread")
              => /\ obs'[w].nwrite = 1
                 /\ RowsById(db'[t], t, new_id'[w]) # {}
                 /\ RowsById(db[t], t, new_id'[w]) = {}
        /\ (pc[w] = "insert" /\ pc'[w] = "done")
              => /\ db' = db
                 /\ new_id'[w] = 0
                 /\ resp'[w].status \in {Conflict, InternalError}
        /\ (pc[w] = "reread" /\ pc'[w] = "done" /\ req[w].op = "create")
              => /\ db' = db
                 /\ new_id'[w] = new_id[w]
                 /\ (RowsById(db[t], t, new_id[w]) # {} /\ obs'[w].cause # "none")
                       => /\ resp'[w].status = InternalError
                          /\ RowsById(db'[t], t, new_id[w]) # {}

\* C18: a create commits its INSERT before it starts the follow-up read;
\* the follow-up read changes nothing, so when it fails and the create
\* reports an error the new record is still stored under the generated
\* identity (a get finds it, see C12); a create whose INSERT fails adds no
\* record.
C18_CommitBeforeReread == [][\A w \in Workers : C18_Step(w)]_vars

C18_Witness ==
    \E w, v \in Workers :
        /\ pc[w] = "done" /\ req[w].op = "create"
        /\ resp[w].status = InternalError
        /\ obs[w].nwrite = 1 /\ obs[w].nstmt = 2
        /\ pc[v] = "done" /\ req[v].op = "get"
        /\ req[v].tbl = req[w].tbl /\ req[v].id = new_id[w]
        /\ resp[v].status = Ok
        /\ resp[v].body = RowsById(db[req[w].tbl], req[w].tbl, new_id[w])
        /\ resp[v].body # {}

====
